---- MODULE Spec2Model ----
(***************************************************************************)
(* OAuth 2.0 authorization-code test client.                               *)
(*                                                                         *)
(*   src/server.js         the app with the state store (/login,           *)
(*                         /auth/callback)                                 *)
(*   src/unnamed/part_000  the app without a state store (/login,          *)
(*                         /api/auth/callback)                             *)
(*                                                                         *)
(* Node runs every handler to its next await without interleaving, so an   *)
(* action is one run-to-completion slice of a handler: the synchronous     *)
(* prefix of a callback up to `await fetch`, the slice between the fetch   *)
(* settling and `await tokenResponse.json()`, and the slice after it.      *)
(*                                                                         *)
(* The clock is counted in units of ten minutes;  a state token is the     *)
(* ordinal of the /login that minted it (crypto.randomBytes(32) is taken   *)
(* never to repeat a value), and ForgedToken is a value no /login minted.  *)
(* mintedAt remembers when each token was minted, also after the store has *)
(* forgotten it.                                                           *)
(***************************************************************************)
EXTENDS Integers, Sequences, FiniteSets

VARIABLES now, stateStore, mintedAt, redirect, reqs

vars == <<now, stateStore, mintedAt, redirect, reqs>>

\* ------------------------------------------------------------------ bounds
MaxLogins == 2
MaxCallbacks == 2

\* ------------------------------------------------------- program constants
\* 10 * 60 * 1000 ms, in clock units of ten minutes
TTL == 1

\* the clock runs until a record minted at 0 is older than TTL
MaxTime == TTL + 1

ForgedToken == 0

Tokens == 0..MaxLogins

\* ------------------------------------------------------------------- JSON
\* A body text is what it parses to (when it parses) and how it is laid out.
NoBody == [json |-> FALSE, value |-> "", indent |-> 0]

TokensBody == [json |-> TRUE, value |-> "access_token", indent |-> 0]

ErrorBody == [json |-> TRUE, value |-> "invalid_client", indent |-> 4]

HtmlBody == [json |-> FALSE, value |-> "<html>Bad Gateway</html>", indent |-> 0]

Bodies == {TokensBody, ErrorBody, HtmlBody}

\* tokenResponse.json(): the parsed value, or a throw when the text is no JSON
JsonParses(body) == body.json

JsonParse(body) == body.value

\* JSON.stringify(value, null, indent)
JsonStringify(value, indent) == [json |-> TRUE, value |-> value, indent |-> indent]

\* tokenResponse.ok
ResponseOk(status) == status >= 200 /\ status <= 299

\* What the token endpoint may answer: status and body text.
Replies ==
    {[status |-> 200, body |-> TokensBody], [status |-> 200, body |-> HtmlBody],
     [status |-> 401, body |-> ErrorBody], [status |-> 502, body |-> HtmlBody]}

\* ------------------------------------------------------------ state store
NoRecord == [present |-> FALSE, timestamp |-> 0, used |-> FALSE]

\* age > TTL, the expiry the clean-up loop applies
Expired(timestamp, t) == timestamp < t - TTL

\* stateStore.get(state), as a snapshot
Lookup(store, state) ==
    IF state \in DOMAIN store
    THEN [present |-> TRUE, timestamp |-> store[state].timestamp, used |-> store[state].used]
    ELSE NoRecord

\* stateStore.set(key, value)
StoreSet(store, key, value) ==
    [k \in DOMAIN store \cup {key} |-> IF k = key THEN value ELSE store[k]]

\* SweepExpired with `<=` for `<`: a record aged exactly TTL is deleted
SweepExpired_OffByOne(store, t) ==
    LET tenMinutesAgo == t - TTL
        keep == {k \in DOMAIN store : ~(store[k].timestamp <= tenMinutesAgo)}
    IN  [k \in keep |-> store[k]]

\* SweepExpired deleting only the records that were never used
SweepExpired_SparesUsed(store, t) ==
    LET tenMinutesAgo == t - TTL
        keep == {k \in DOMAIN store :
                    store[k].used \/ ~(store[k].timestamp < tenMinutesAgo)}
    IN  [k \in keep |-> store[k]]

\* the clean-up loop of /login
SweepExpired(store, t) ==
    LET tenMinutesAgo == t - TTL
        keep == {k \in DOMAIN store : ~(store[k].timestamp < tenMinutesAgo)}
    IN  [k \in keep |-> store[k]]

\* ---------------------------------------------------------------- queries
\* req.query of a callback. The handler tests its parameters for truthiness, so
\* code and state are present (non-empty) or not, and "" stands for an error
\* or error_description that is absent or empty. state names a minted token or
\* the forged one; error_description comes only with error; an error comes
\* with a state the authorization server was sent, and one with a description
\* comes with neither code nor state or with both.
Queries ==
    {q \in [code : BOOLEAN, hasState : BOOLEAN, state : Tokens,
            error : {"", "access_denied"}, errorDescription : {"", "User cancelled"}] :
        /\ (~q.hasState => q.state = ForgedToken)
        /\ (q.error = "" => q.errorDescription = "")
        /\ (q.error # "" /\ q.hasState => q.state # ForgedToken)
        /\ (q.errorDescription # "" => q.code = q.hasState)}

NoUpstream == [settled |-> FALSE, status |-> 0, body |-> NoBody]

NoResponse == [status |-> 0, text |-> "", detail |-> "", upStatus |-> 0, body |-> NoBody]

\* res.status(status).send(...)
Response(status, text, detail, upStatus, body) ==
    [status |-> status, text |-> text, detail |-> detail, upStatus |-> upStatus, body |-> body]

\* the catch block: res.status(500).send(`... ${tokenExchangeError.message}`)
CaughtResponse(message, upStatus, body) ==
    Response(500, "Authentication failed during token exchange", message, upStatus, body)

\* errorDescription || error
DescriptionOrError(q) == IF q.errorDescription # "" THEN q.errorDescription ELSE q.error

\* EarlyResponse without the `if (!authorizationCode)` check
EarlyResponse_SkipsCode(q) ==
    IF q.error # ""
    THEN Response(400, "Authentication failed", DescriptionOrError(q), 0, NoBody)
    ELSE NoResponse

\* EarlyResponse with the code check ahead of the error check
EarlyResponse_CodeFirst(q) ==
    IF ~q.code
    THEN Response(400, "Authentication failed: No code received.", "", 0, NoBody)
    ELSE IF q.error # ""
    THEN Response(400, "Authentication failed", DescriptionOrError(q), 0, NoBody)
    ELSE NoResponse

\* The checks both apps make before anything else: error, then code.
EarlyResponse(q) ==
    IF q.error # ""
    THEN Response(400, "Authentication failed", DescriptionOrError(q), 0, NoBody)
    ELSE IF ~q.code
    THEN Response(400, "Authentication failed: No code received.", "", 0, NoBody)
    ELSE NoResponse

\* The requests to the same app carrying the state parameter of q that have
\* been answered.
Answered(rs, app, q) ==
    {i \in 1..Len(rs) :
        /\ rs[i].pc = "done"
        /\ rs[i].app = app
        /\ rs[i].query.hasState /\ q.hasState
        /\ rs[i].query.state = q.state}

\* The requests suspended at an await.
Suspended(rs) == {i \in 1..Len(rs) : rs[i].pc # "done"}

\* ValidateState without `stateData.used = true`
ValidateState_NeverMarksUsed(store, q) ==
    LET stateData == Lookup(store, q.state)
    IN  IF ~q.hasState
        THEN [resp |-> Response(400, "Authentication failed: No state parameter received.", "", 0, NoBody),
              store |-> store]
        ELSE IF ~stateData.present
        THEN [resp |-> Response(400, "Authentication failed: Invalid or expired state parameter.", "", 0, NoBody),
              store |-> store]
        ELSE IF stateData.used
        THEN [resp |-> Response(400, "Authentication failed: State parameter already used.", "", 0, NoBody),
              store |-> store]
        ELSE [resp |-> NoResponse, store |-> store]

\* ValidateState with the used flag written only after the exchange would have
\* settled: a second callback arriving meanwhile finds it still false
ValidateState_MarksUsedLate(store, q) ==
    LET stateData == Lookup(store, q.state)
    IN  IF ~q.hasState
        THEN [resp |-> Response(400, "Authentication failed: No state parameter received.", "", 0, NoBody),
              store |-> store]
        ELSE IF ~stateData.present
        THEN [resp |-> Response(400, "Authentication failed: Invalid or expired state parameter.", "", 0, NoBody),
              store |-> store]
        ELSE IF stateData.used /\ Suspended(reqs) = {}
        THEN [resp |-> Response(400, "Authentication failed: State parameter already used.", "", 0, NoBody),
              store |-> store]
        ELSE [resp |-> NoResponse,
              store |-> StoreSet(store, q.state,
                            [timestamp |-> stateData.timestamp, used |-> TRUE])]

\* ValidateState with `stateStore.get(state) || {}`: an unknown state gets a
\* record of its own
ValidateState_StoresUnknown(store, q) ==
    LET stateData == Lookup(store, q.state)
    IN  IF ~q.hasState
        THEN [resp |-> Response(400, "Authentication failed: No state parameter received.", "", 0, NoBody),
              store |-> store]
        ELSE IF stateData.used
        THEN [resp |-> Response(400, "Authentication failed: State parameter already used.", "", 0, NoBody),
              store |-> store]
        ELSE [resp |-> NoResponse,
              store |-> StoreSet(store, q.state,
                            [timestamp |-> stateData.timestamp, used |-> TRUE])]

\* ValidateState deleting the record of a state it finds already used
ValidateState_DropsReplayed(store, q) ==
    LET stateData == Lookup(store, q.state)
    IN  IF ~q.hasState
        THEN [resp |-> Response(400, "Authentication failed: No state parameter received.", "", 0, NoBody),
              store |-> store]
        ELSE IF ~stateData.present
        THEN [resp |-> Response(400, "Authentication failed: Invalid or expired state parameter.", "", 0, NoBody),
              store |-> store]
        ELSE IF stateData.used
        THEN [resp |-> Response(400, "Authentication failed: State parameter already used.", "", 0, NoBody),
              store |-> [k \in DOMAIN store \ {q.state} |-> store[k]]]
        ELSE [resp |-> NoResponse,
              store |-> StoreSet(store, q.state,
                            [timestamp |-> stateData.timestamp, used |-> TRUE])]

\* ValidateState without the `if (stateData.used)` check
ValidateState_IgnoresUsed(store, q) ==
    LET stateData == Lookup(store, q.state)
    IN  IF ~q.hasState
        THEN [resp |-> Response(400, "Authentication failed: No state parameter received.", "", 0, NoBody),
              store |-> store]
        ELSE IF ~stateData.present
        THEN [resp |-> Response(400, "Authentication failed: Invalid or expired state parameter.", "", 0, NoBody),
              store |-> store]
        ELSE [resp |-> NoResponse,
              store |-> StoreSet(store, q.state,
                            [timestamp |-> stateData.timestamp, used |-> TRUE])]

\* The state checks of /auth/callback, up to stateStore.set(state, stateData):
\* the response when one of them returns, and the store afterwards.
ValidateState(store, q) ==
    LET stateData == Lookup(store, q.state)
    IN  IF ~q.hasState
        THEN [resp |-> Response(400, "Authentication failed: No state parameter received.", "", 0, NoBody),
              store |-> store]
        ELSE IF ~stateData.present
        THEN [resp |-> Response(400, "Authentication failed: Invalid or expired state parameter.", "", 0, NoBody),
              store |-> store]
        ELSE IF stateData.used
        THEN [resp |-> Response(400, "Authentication failed: State parameter already used.", "", 0, NoBody),
              store |-> store]
        ELSE [resp |-> NoResponse,
              store |-> StoreSet(store, q.state,
                            [timestamp |-> stateData.timestamp, used |-> TRUE])]

\* A request as its handler starts. seen, expired and answeredBefore record
\* what the handler found: the store's record for the state parameter, whether
\* the token it carries was minted more than TTL ago, and which earlier
\* requests carrying the same state had been answered (the others were
\* suspended at an await).
Request(app, q, seen) ==
    [app |-> app, query |-> q, pc |-> "done",
     seen |-> [present |-> seen.present, used |-> seen.used],
     expired |-> q.state \in 1..Len(mintedAt) /\ Expired(mintedAt[q.state], now),
     answeredBefore |-> Answered(reqs, app, q), validated |-> FALSE, posts |-> 0, upstream |-> NoUpstream,
     resp |-> NoResponse, sent |-> 0]

\* res.redirect(authUrl) of the latest /login: the state parameter of the URL,
\* and the store's record for it as the redirect is emitted.
NoRedirect == [app |-> "", hasState |-> FALSE, state |-> ForgedToken, at |-> 0,
               record |-> NoRecord]

Init ==
    /\ now = 0
    /\ stateStore = <<>>
    /\ mintedAt = <<>>
    /\ redirect = NoRedirect
    /\ reqs = <<>>

\* ----------------------------------------------------------------- clock
Tick ==
    /\ now < MaxTime
    /\ now' = now + 1
    /\ UNCHANGED <<stateStore, mintedAt, redirect, reqs>>

\* ----------------------------------------------------------------- /login
Login ==
    /\ Len(mintedAt) < MaxLogins
    /\ LET state == Len(mintedAt) + 1
           timestamp == now
           stored == StoreSet(stateStore, state, [timestamp |-> timestamp, used |-> FALSE])
           swept == SweepExpired(stored, now)
       IN  /\ stateStore' = swept
           /\ mintedAt' = Append(mintedAt, timestamp)
           /\ redirect' = [app |-> "server", hasState |-> TRUE, state |-> state,
                           at |-> now, record |-> Lookup(swept, state)]
    /\ UNCHANGED <<now, reqs>>

LegacyLogin ==
    /\ redirect' = [app |-> "legacy", hasState |-> FALSE, state |-> ForgedToken,
                    at |-> now, record |-> NoRecord]
    /\ UNCHANGED <<now, stateStore, mintedAt, reqs>>

\* --------------------------------------------------------- /auth/callback
\* The synchronous prefix of the handler, up to `await fetch(tokenUrl, ...)`.
Callback(q) ==
    /\ Len(reqs) < MaxCallbacks
    /\ q.state \in {ForgedToken} \cup 1..Len(mintedAt)
    /\ LET early == EarlyResponse(q)
           checked == ValidateState(stateStore, q)
           r == Request("server", q, Lookup(stateStore, q.state))
       IN  IF early # NoResponse
           THEN /\ reqs' = Append(reqs, [r EXCEPT !.resp = early, !.sent = 1])
                /\ UNCHANGED stateStore
           ELSE IF checked.resp # NoResponse
           THEN /\ reqs' = Append(reqs, [r EXCEPT !.resp = checked.resp, !.sent = 1])
                /\ stateStore' = checked.store
           ELSE /\ reqs' = Append(reqs, [r EXCEPT !.pc = "fetch", !.validated = TRUE,
                                                  !.posts = 1])
                /\ stateStore' = checked.store
    /\ UNCHANGED <<now, mintedAt, redirect>>

\* ----------------------------------------------------- /api/auth/callback
\* The handler of the app without a state store: error, code, then the fetch.
LegacyCallback(q) ==
    /\ Len(reqs) < MaxCallbacks
    /\ ~q.hasState
    /\ LET early == EarlyResponse(q)
           r == Request("legacy", q, NoRecord)
       IN  IF early # NoResponse
           THEN reqs' = Append(reqs, [r EXCEPT !.resp = early, !.sent = 1])
           ELSE reqs' = Append(reqs, [r EXCEPT !.pc = "fetch", !.posts = 1])
    /\ UNCHANGED <<now, stateStore, mintedAt, redirect>>

\* ------------------------------------------------------- the token exchange
\* FetchRejects with a retry in the catch block: the POST is issued again
FetchRejects_Retries(i) ==
    /\ i \in 1..Len(reqs)
    /\ reqs[i].pc = "fetch"
    /\ reqs' = [reqs EXCEPT ![i].posts = @ + 1]
    /\ UNCHANGED <<now, stateStore, mintedAt, redirect>>

\* FetchRejects with the catch block clearing the used flag, so that the user
\* can try the same state again
FetchRejects_ReleasesState(i) ==
    /\ i \in 1..Len(reqs)
    /\ reqs[i].pc = "fetch"
    /\ reqs' = [reqs EXCEPT ![i].pc = "done",
                            ![i].resp = CaughtResponse("FetchError", 0, NoBody),
                            ![i].sent = @ + 1]
    /\ stateStore' =
           IF reqs[i].query.state \in DOMAIN stateStore
           THEN [stateStore EXCEPT ![reqs[i].query.state].used = FALSE]
           ELSE stateStore
    /\ UNCHANGED <<now, mintedAt, redirect>>

\* `await fetch` rejects: the catch block answers.
FetchRejects(i) ==
    /\ i \in 1..Len(reqs)
    /\ reqs[i].pc = "fetch"
    /\ reqs' = [reqs EXCEPT ![i].pc = "done",
                            ![i].resp = CaughtResponse("FetchError", 0, NoBody),
                            ![i].sent = @ + 1]
    /\ UNCHANGED <<now, stateStore, mintedAt, redirect>>

\* `await fetch` resolves; both branches then await tokenResponse.json().
FetchResolves(i, reply) ==
    /\ i \in 1..Len(reqs)
    /\ reqs[i].pc = "fetch"
    /\ reqs' = [reqs EXCEPT ![i].pc = "body",
                            ![i].upstream = [settled |-> TRUE, status |-> reply.status,
                                              body |-> reply.body]]
    /\ UNCHANGED <<now, stateStore, mintedAt, redirect>>

\* ExchangeResponse without the `if (!tokenResponse.ok)` branch
ExchangeResponse_IgnoresOk(status, body) ==
    IF ~JsonParses(body)
    THEN CaughtResponse("invalid json response body", 0, NoBody)
    ELSE Response(200, "Authentication Successful!", "", 0, JsonStringify(JsonParse(body), 2))

\* What the handler sends once tokenResponse.json() has settled.
ExchangeResponse(status, body) ==
    IF ~JsonParses(body)
    THEN CaughtResponse("invalid json response body", 0, NoBody)
    ELSE IF ~ResponseOk(status)
    THEN CaughtResponse("Token exchange failed", status, JsonStringify(JsonParse(body), 0))
    ELSE Response(200, "Authentication Successful!", "", 0, JsonStringify(JsonParse(body), 2))

\* BodySettles with the json() calls outside the try block: a body that is no
\* JSON rejects the handler's promise and nothing is ever sent
BodySettles_Unhandled(i) ==
    /\ i \in 1..Len(reqs)
    /\ reqs[i].pc = "body"
    /\ reqs' = IF JsonParses(reqs[i].upstream.body)
               THEN [reqs EXCEPT ![i].pc = "done",
                                 ![i].resp = ExchangeResponse(reqs[i].upstream.status,
                                                              reqs[i].upstream.body),
                                 ![i].sent = @ + 1]
               ELSE [reqs EXCEPT ![i].pc = "rejected"]
    /\ UNCHANGED <<now, stateStore, mintedAt, redirect>>

BodySettles(i) ==
    /\ i \in 1..Len(reqs)
    /\ reqs[i].pc = "body"
    /\ reqs' = [reqs EXCEPT ![i].pc = "done",
                            ![i].resp = ExchangeResponse(reqs[i].upstream.status,
                                                         reqs[i].upstream.body),
                            ![i].sent = @ + 1]
    /\ UNCHANGED <<now, stateStore, mintedAt, redirect>>

Next ==
    \/ Tick
    \/ Login
    \/ \E q \in Queries : Callback(q)
    \/ \E i \in 1..MaxCallbacks : FetchRejects(i)
    \/ \E i \in 1..MaxCallbacks, reply \in Replies : FetchResolves(i, reply)
    \/ \E i \in 1..MaxCallbacks : BodySettles(i)

\* src/server.js alone
Spec == Init /\ [][Next]_vars

NextRepo ==
    \/ Next
    \/ LegacyLogin
    \/ \E q \in Queries : LegacyCallback(q)

\* both apps of the repository
SpecRepo == Init /\ [][NextRepo]_vars

\* src/server.js with an outbound call that settles: a pending fetch resolves
\* or rejects, a pending body read resolves or rejects, and the event loop
\* then runs the handler's continuation.
Settling ==
    \A i \in 1..MaxCallbacks :
        /\ WF_vars(FetchRejects(i) \/ \E reply \in Replies : FetchResolves(i, reply))
        /\ WF_vars(BodySettles(i))

SpecLive == Spec /\ Settling

\* ------------------------------------------------------------------ claims
\* The callbacks of /auth/callback, in order of arrival.
ServerCallbacks == {i \in 1..Len(reqs) : reqs[i].app = "server"}

\* Callbacks that get as far as the state store: a code, a state, no error.
Validating == {i \in ServerCallbacks :
                  reqs[i].query.error = "" /\ reqs[i].query.code /\ reqs[i].query.hasState}

SameState(i, j) == reqs[i].query.state = reqs[j].query.state

Minted(i) == reqs[i].query.state # ForgedToken

\* i passed state validation (Ok)
Passed(i) == reqs[i].validated

RejectedWith(i, text) ==
    /\ ~reqs[i].validated
    /\ reqs[i].posts = 0
    /\ reqs[i].pc = "done"
    /\ reqs[i].resp.status = 400
    /\ reqs[i].resp.text = text

ReplayedState(i) == RejectedWith(i, "Authentication failed: State parameter already used.")

MissingState(i) == RejectedWith(i, "Authentication failed: Invalid or expired state parameter.")

\* the earliest validating callback carrying the state of i
FirstFor(i) ==
    CHOOSE j \in Validating :
        SameState(i, j) /\ \A k \in Validating : SameState(i, k) => j <= k

PassedAtMostOnce ==
    \A i, j \in Validating : SameState(i, j) /\ Passed(i) /\ Passed(j) => i = j

\* C1 as stated: for every minted token, the first callback carrying it, when
\* made within TTL, passes state validation, every later callback carrying it
\* is rejected as ReplayedState, and no token passes twice.
C1_EveryLaterIsReplayed ==
    /\ PassedAtMostOnce
    /\ \A i \in Validating :
          LET first == FirstFor(i)
          IN  Minted(i) /\ ~reqs[first].expired =>
                  IF i = first THEN Passed(i) ELSE ReplayedState(i)

\* C1, amended: for every minted token, the first callback carrying it, when
\* made within TTL, passes state validation; every later callback carrying it
\* is rejected with HTTP 400, as ReplayedState while the store still holds the
\* record and as MissingState once a /login has swept it; no token passes twice.
C1_LaterIsReplayedOrMissing ==
    /\ PassedAtMostOnce
    /\ \A i \in Validating :
          LET first == FirstFor(i)
          IN  Minted(i) /\ ~reqs[first].expired =>
                  IF i = first THEN Passed(i)
                  ELSE IF reqs[i].seen.present THEN ReplayedState(i) ELSE MissingState(i)

\* a token passed within TTL, was replayed, and was replayed again after a sweep
C1_Witness ==
    \E i, j \in Validating :
        /\ Minted(i) /\ SameState(i, j) /\ i = FirstFor(i) /\ i < j
        /\ Passed(i) /\ ~reqs[i].expired
        /\ MissingState(j) /\ reqs[j].query.state \notin DOMAIN stateStore

\* a callback that started while another one carrying the same state was
\* suspended at an await
Racing(i) == \E j \in Validating : j < i /\ SameState(i, j) /\ j \notin reqs[i].answeredBefore

\* C2: of the callbacks carrying the same unexpired state token that are
\* handled concurrently, exactly one passes state validation and the others
\* are rejected as ReplayedState.
C2_ConcurrentExactlyOne ==
    /\ PassedAtMostOnce
    /\ \A i \in Validating :
          Racing(i) /\ reqs[i].seen.present /\ ~reqs[i].expired =>
              /\ ReplayedState(i)
              /\ \E j \in Validating : j < i /\ SameState(i, j) /\ Passed(j)

\* two callbacks race on one token while the first is awaiting the exchange
C2_Witness ==
    \E i, j \in Validating :
        /\ i < j /\ SameState(i, j) /\ Racing(j) /\ ~reqs[j].expired
        /\ Passed(i) /\ reqs[i].pc = "fetch" /\ ReplayedState(j)

\* C3: a callback carrying a state token whose record is older than TTL is
\* rejected with HTTP 400 as expired and issues no token exchange, whether or
\* not a /login has run since the record expired.
C3_ExpiredIsRejected ==
    \A i \in Validating :
        reqs[i].seen.present /\ reqs[i].expired => MissingState(i)

\* C4: a token-exchange POST is issued by a callback only after that callback's
\* state token has passed validation: its record was present, not expired and
\* not used, and is marked used.
C4_ExchangeOnlyAfterValidation ==
    \A i \in 1..Len(reqs) :
        reqs[i].posts > 0 =>
            /\ reqs[i].validated
            /\ reqs[i].seen.present /\ ~reqs[i].seen.used /\ ~reqs[i].expired
            /\ (reqs[i].query.state \in DOMAIN stateStore =>
                    stateStore[reqs[i].query.state].used)

\* C5: a callback carrying a code and a state that no /login minted fails with
\* MissingState (HTTP 400), issues no token exchange and creates no record.
C5_UnknownStateIsMissing ==
    /\ ForgedToken \notin DOMAIN stateStore
    /\ \A i \in Validating : ~Minted(i) => MissingState(i) /\ ~reqs[i].seen.present

\* a forged state was presented while the store held records of minted tokens
C5_Witness ==
    \E i \in Validating :
        ~Minted(i) /\ MissingState(i) /\ DOMAIN stateStore # {} /\ Len(reqs) > 1

\* C6: every /login answers with a redirect whose URL carries a state
\* parameter for which, as the redirect is emitted, the store holds the record
\* that request created: used=false, createdAt = now.
C6_RedirectCarriesFreshState ==
    redirect # NoRedirect =>
        /\ redirect.hasState
        /\ redirect.record = [present |-> TRUE, timestamp |-> redirect.at, used |-> FALSE]

\* j started after i had been answered
After(j, i) == i \in reqs[j].answeredBefore

\* callbacks carrying a state parameter, whatever else they carry
CarryingState == {i \in ServerCallbacks : reqs[i].query.hasState}

\* C7 as stated: once a callback carrying T has been answered (Completed or
\* Failed), no later callback carrying T passes state validation.
C7_TerminalIsFinal ==
    \A i, j \in CarryingState :
        Minted(i) /\ SameState(i, j) /\ After(j, i) => ~Passed(j)

\* C7, amended: once a callback carrying T that got as far as state validation
\* (a code, no error) has been answered, no later callback carrying T passes
\* state validation.
C7_ValidatedTerminalIsFinal ==
    \A i \in Validating, j \in CarryingState :
        Minted(i) /\ SameState(i, j) /\ After(j, i) => ~Passed(j)

\* a completed login attempt is replayed after it was answered with 200
C7_Witness ==
    \E i \in Validating, j \in CarryingState :
        /\ Minted(i) /\ SameState(i, j) /\ After(j, i)
        /\ Passed(i) /\ reqs[i].resp.status = 200
        /\ ReplayedState(j)

\* C8: when the token endpoint answers with a non-2xx status the callback ends
\* with HTTP 500 and its response carries the upstream status and the upstream
\* error body, whatever that body is.
C8_Non2xxCarriesStatusAndBody ==
    \A i \in ServerCallbacks :
        /\ reqs[i].pc = "done"
        /\ reqs[i].upstream.settled
        /\ ~ResponseOk(reqs[i].upstream.status)
        => /\ reqs[i].resp.status = 500
           /\ reqs[i].resp.upStatus = reqs[i].upstream.status
           /\ reqs[i].resp.body.value = reqs[i].upstream.body.value

\* C9: a callback that passes state validation issues exactly one POST to the
\* token endpoint, whatever the outcome of the exchange; one that does not
\* pass issues none.
C9_ExactlyOnePost ==
    \A i \in ServerCallbacks : reqs[i].posts = IF Passed(i) THEN 1 ELSE 0

\* exchanges have failed in transport and on an unreadable body, one POST each
C9_Witness ==
    \E i, j \in ServerCallbacks :
        /\ reqs[i].pc = "done" /\ reqs[i].resp.status = 500 /\ ~reqs[i].upstream.settled
        /\ reqs[j].pc = "done" /\ reqs[j].resp.status = 500
        /\ reqs[j].upstream.settled /\ ~JsonParses(reqs[j].upstream.body)
        /\ reqs[i].posts = 1 /\ reqs[j].posts = 1

Attempted(i) == reqs[i].posts > 0

Succeeded(i) ==
    /\ Passed(i)
    /\ reqs[i].upstream.settled
    /\ ResponseOk(reqs[i].upstream.status)
    /\ JsonParses(reqs[i].upstream.body)

FirstRule(q) ==
    IF q.error # "" THEN "Authentication failed"
    ELSE IF ~q.code THEN "Authentication failed: No code received."
    ELSE IF ~q.hasState THEN "Authentication failed: No state parameter received."
    ELSE ""

\* C12: the failure kind of a callback is that of the first rule that matches,
\* in the order error present, code missing, state missing, and only then the
\* verdict of the state store; so a callback with neither code nor state, or
\* without code and with a replayed or unknown state, fails with MissingCode.
C12_FirstMatchingRule ==
    \A i \in ServerCallbacks :
        IF FirstRule(reqs[i].query) # ""
        THEN RejectedWith(i, FirstRule(reqs[i].query))
        ELSE Passed(i) \/ MissingState(i) \/ ReplayedState(i)

\* a callback without code that carried an already used state got MissingCode
C12_Witness ==
    \E i \in ServerCallbacks :
        /\ reqs[i].query.error = "" /\ ~reqs[i].query.code /\ reqs[i].query.hasState
        /\ reqs[i].seen.present /\ reqs[i].seen.used
        /\ RejectedWith(i, "Authentication failed: No code received.")

\* the latest /login of the app with the store has just completed
JustLoggedIn == redirect.app = "server" /\ redirect.at = now

\* C13: right after a /login has completed the store holds no record older
\* than TTL, used or unused.
C13_NoExpiredAfterLogin ==
    JustLoggedIn =>
        \A k \in DOMAIN stateStore : now - stateStore[k].timestamp <= TTL

\* a /login has swept the expired record of a token that had been used
C13_Witness ==
    /\ JustLoggedIn
    /\ \E i \in Validating :
          /\ Passed(i) /\ Minted(i)
          /\ now - mintedAt[reqs[i].query.state] > TTL
          /\ reqs[i].query.state \notin DOMAIN stateStore

\* C14: over the life of the process at most one token-exchange POST is issued
\* on behalf of a state token, counting all callbacks that carry it; after a
\* failed exchange a repeated callback is rejected without a second POST.
C14_OnePostPerToken ==
    /\ \A i \in CarryingState : reqs[i].posts <= 1
    /\ \A i, j \in CarryingState :
          SameState(i, j) /\ Attempted(i) /\ Attempted(j) => i = j

\* the exchange for a token failed and the token was presented again
C14_Witness ==
    \E i, j \in Validating :
        /\ Minted(i) /\ SameState(i, j) /\ After(j, i)
        /\ Attempted(i) /\ reqs[i].resp.status = 500
        /\ reqs[j].pc = "done" /\ ~Attempted(j) /\ reqs[j].resp.status = 400

\* the step is the handler of a new /auth/callback request
Arrives == Len(reqs') = Len(reqs) + 1 /\ reqs'[Len(reqs')].app = "server"

\* C15: a callback that fails before or during state validation leaves the
\* store as it was: no record added, removed or changed; and a used flag only
\* ever changes from false to true, in a callback that passes validation with
\* that very state.
C15_FailedCallbackLeavesStore ==
    [][/\ Arrives /\ ~reqs'[Len(reqs')].validated => stateStore' = stateStore
       /\ \A k \in DOMAIN stateStore \cap DOMAIN stateStore' :
             stateStore'[k].used # stateStore[k].used =>
                 /\ ~stateStore[k].used /\ stateStore'[k].used
                 /\ stateStore'[k].timestamp = stateStore[k].timestamp
                 /\ Arrives
                 /\ reqs'[Len(reqs')].validated
                 /\ reqs'[Len(reqs')].query.state = k]_vars

\* a replay was rejected and the record it named is still there, used
C15_Witness ==
    \E i \in Validating :
        /\ ReplayedState(i)
        /\ reqs[i].query.state \in DOMAIN stateStore
        /\ stateStore[reqs[i].query.state] =
               [timestamp |-> mintedAt[reqs[i].query.state], used |-> TRUE]

\* C16: no /login removes or changes a record aged at most TTL: while a token
\* is within TTL the store holds its record as minted, used exactly when a
\* callback carrying it has passed, so an unused token within TTL still
\* passes validation whatever /logins and other callbacks came in between.
C16_LiveRecordKept ==
    /\ \A t \in 1..Len(mintedAt) :
          now - mintedAt[t] <= TTL =>
              /\ t \in DOMAIN stateStore
              /\ stateStore[t].timestamp = mintedAt[t]
              /\ stateStore[t].used <=>
                     \E i \in Validating : reqs[i].query.state = t /\ Passed(i)
    /\ \A i \in Validating :
          Minted(i) /\ ~reqs[i].expired =>
              /\ reqs[i].seen.present
              /\ ~reqs[i].seen.used => Passed(i)

\* a token aged exactly TTL passed after a later /login and after the callback
\* of the token that /login minted
C16_Witness ==
    /\ Len(mintedAt) = 2 /\ mintedAt[2] = mintedAt[1] + TTL
    /\ Len(reqs) = 2
    /\ reqs[1].app = "server" /\ reqs[1].query.state = 2 /\ reqs[1].validated
    /\ reqs[2].app = "server" /\ reqs[2].query.state = 1 /\ reqs[2].validated
    /\ ~reqs[2].expired

\* C17: every /auth/callback request sends exactly one response, none while it
\* is suspended and one when it ends, and, the outbound call settling, every
\* request ends (Completed or Failed), also when reading the body throws.
C17_OneResponseEventually ==
    /\ [](\A i \in ServerCallbacks :
              reqs[i].sent = IF reqs[i].pc = "done" THEN 1 ELSE 0)
    /\ \A i \in 1..MaxCallbacks :
          (Len(reqs) >= i) ~> (Len(reqs) >= i /\ reqs[i].pc = "done")

\* a callback whose body read threw has been answered, once
C17_Witness ==
    \E i \in ServerCallbacks :
        /\ reqs[i].upstream.settled /\ ~JsonParses(reqs[i].upstream.body)
        /\ reqs[i].pc = "done" /\ reqs[i].sent = 1 /\ reqs[i].resp.status = 500
====
